---- MODULE Spec2Model ----
(***************************************************************************)
(* Task status resolution and the assignment-request workflow of the       *)
(* task-tracking backend (controllers/taskControllers.js and the           *)
(* assignment controller that follows it in the same file).                *)
(*                                                                         *)
(* The database is two collections: tasks and assignment requests.  Every  *)
(* controller runs as one atomic action (one HTTP call at a time).         *)
(***************************************************************************)
EXTENDS Integers, Sequences, FiniteSets, TLC

(* ---- bounds of the model ---------------------------------------------- *)
MaxTasks == 3
MaxRequests == 2
MaxAssignees == 2
MaxChecklist == 2
(* the longest checklist of the progress computation taken alone *)
MaxItems == 200
(* the handlers in flight at the same time *)
MaxCalls == 2

(* ---- universes --------------------------------------------------------- *)
Users == {"u1", "u2"}
Admin == "admin"
Callers == Users \cup {Admin}
Priorities == {"Low", "Medium", "High"}
TaskStatuses == {"Pending", "In Progress", "Completed", "Rejected", "Pending Approval"}
RequestStatuses == {"Pending", "Approved", "Rejected"}
Null == "null"
Reasons == {Null, "busy"}
Actions == {"approve", "reject", "other"}
CallIds == 1..MaxCalls
(* an optional field of a request body: absent, or the value given *)
Absent == <<>>
Some(v) == <<v>>
Optional(S) == {Absent} \cup {Some(v) : v \in S}

(* Defaults of the Task schema for fields createTask does not pass. *)
DefaultStatus == "Pending"
DefaultProgress == 0

(* The overload threshold of createTask / checkHighPriorityTasks. *)
OverloadThreshold == 2

SeqsUpTo(S, n) == UNION {[1..k -> S] : k \in 0..n}
AssigneeLists == SeqsUpTo(Users, MaxAssignees)
Checklists == SeqsUpTo(BOOLEAN, MaxChecklist)

(* tasks and requests are the two collections; last is the answer of the  *)
(* handler that finished last; calls holds the handlers in flight, each    *)
(* between two of its database calls (none when the handlers run one at a  *)
(* time).                                                                   *)
VARIABLES tasks, requests, last, calls
vars == <<tasks, requests, last, calls>>

(* ---- helpers ------------------------------------------------------------ *)
(* a handler not called yet, and all of them so *)
Idle ==
    [pc |-> "idle", task |-> 0, req |-> 0, user |-> Null, reason |-> Null,
     seen |-> <<>>, assigned |-> <<>>, status |-> Null]
NoCalls == [k \in CallIds |-> Idle]

Includes(seq, x) == \E i \in 1..Len(seq) : seq[i] = x

(* todoChecklist.filter((item) => item.completed).length *)
CompletedCount(checklist) == Len(SelectSeq(checklist, LAMBDA c : c))

NoOp == [op |-> "none", res |-> "ok", task |-> 0, req |-> 0, user |-> Null, arg |-> Null]
Result(op, res, t, r, u, a) ==
    [op |-> op, res |-> res, task |-> t, req |-> r, user |-> u, arg |-> a]
(* a call that failed: the operation, the error kind and the record it named *)
Failure(op, res, t, r) == Result(op, res, t, r, Null, Null)

(* TaskAssignmentRequest.find({ taskId }) : the task's requests, in insertion order *)
RequestsFor(t) == SelectSeq(requests, LAMBDA r : r.taskId = t)

(* ---- getTasks: the status resolver -------------------------------------- *)
(* assignmentMap[userId] = the last request of that user in find() order *)
MapHas(reqs, u) == \E i \in 1..Len(reqs) : reqs[i].assignedToUserId = u
MapGet(reqs, u) ==
    reqs[CHOOSE i \in 1..Len(reqs) :
            /\ reqs[i].assignedToUserId = u
            /\ \A j \in (i+1)..Len(reqs) : reqs[j].assignedToUserId # u]
MapStatus(reqs, u) == IF MapHas(reqs, u) THEN MapGet(reqs, u).status ELSE Null
MapUsers(reqs) == {reqs[i].assignedToUserId : i \in 1..Len(reqs)}

HasPending(reqs) == \E u \in MapUsers(reqs) : MapStatus(reqs, u) = "Pending"
HasApproved(reqs) == \E u \in MapUsers(reqs) : MapStatus(reqs, u) = "Approved"
AllRejected(task, reqs) ==
    /\ Len(task.assignedTo) > 0
    /\ \A i \in 1..Len(task.assignedTo) : MapStatus(reqs, task.assignedTo[i]) = "Rejected"
SingleUserRejected(task, reqs) ==
    /\ Len(task.assignedTo) = 1
    /\ MapStatus(reqs, task.assignedTo[1]) = "Rejected"
TodoStarted(task) == \E i \in 1..Len(task.todoChecklist) : task.todoChecklist[i]
AllTodoCompleted(task) ==
    /\ Len(task.todoChecklist) > 0
    /\ \A i \in 1..Len(task.todoChecklist) : task.todoChecklist[i]

(* the resolver with the Pending rule tried before the Rejected rule *)
GetTasksStatusPendingFirst(task, reqs) ==
    IF HasPending(reqs) THEN "Pending Approval"
    ELSE IF AllRejected(task, reqs) \/ SingleUserRejected(task, reqs) THEN "Rejected"
    ELSE IF HasApproved(reqs) /\ AllTodoCompleted(task) THEN "Completed"
    ELSE IF HasApproved(reqs) /\ TodoStarted(task) THEN "In Progress"
    ELSE IF HasApproved(reqs) /\ ~TodoStarted(task) THEN "Pending"
    ELSE task.status

GetTasksStatus(task, reqs) ==
    IF AllRejected(task, reqs) \/ SingleUserRejected(task, reqs) THEN "Rejected"
    ELSE IF HasPending(reqs) THEN "Pending Approval"
    ELSE IF HasApproved(reqs) /\ AllTodoCompleted(task) THEN "Completed"
    ELSE IF HasApproved(reqs) /\ TodoStarted(task) THEN "In Progress"
    ELSE IF HasApproved(reqs) /\ ~TodoStarted(task) THEN "Pending"
    ELSE task.status

(* the status GetTasks returns for stored task t *)
Resolve(t) == GetTasksStatus(tasks[t], RequestsFor(t))

(* ---- createTaskAssignmentRequest ---------------------------------------- *)
(* the existence check without its status filter *)
ExistingRequestAnyStatus(reqs, t, u) ==
    \E i \in 1..Len(reqs) :
        /\ reqs[i].taskId = t
        /\ reqs[i].assignedToUserId = u

ExistingRequest(reqs, t, u) ==
    \E i \in 1..Len(reqs) :
        /\ reqs[i].taskId = t
        /\ reqs[i].assignedToUserId = u
        /\ reqs[i].status = "Pending"

NewRequest(t, u) ==
    [taskId |-> t, assignedToUserId |-> u, status |-> "Pending", rejectionReason |-> Null]

(* a create that skips the existence check *)
CreateUnchecked(reqs, t, u) == Append(reqs, NewRequest(t, u))

(* the request collection after one call of createTaskAssignmentRequest *)
CreateTaskAssignmentRequest(reqs, t, u) ==
    IF ExistingRequest(reqs, t, u) THEN reqs ELSE Append(reqs, NewRequest(t, u))

(* a create that puts the candidate in the task's assignedTo at once *)
CreateRequestAssigning(t, u) ==
    /\ t \in 1..Len(tasks)
    /\ UNCHANGED calls
    /\ IF ExistingRequest(requests, t, u)
       THEN /\ UNCHANGED <<tasks, requests>>
            /\ last' = Result("CreateRequest", "Conflict", t, 0, u, Null)
       ELSE /\ Len(requests) < MaxRequests
            /\ requests' = CreateTaskAssignmentRequest(requests, t, u)
            /\ tasks' = [tasks EXCEPT ![t].assignedTo = Append(@, u)]
            /\ last' = Result("CreateRequest", "ok", t, Len(requests) + 1, u, Null)

CreateRequest(t, u) ==
    /\ t \in 1..Len(tasks)
    /\ UNCHANGED calls
    /\ IF ExistingRequest(requests, t, u)
       THEN /\ UNCHANGED <<tasks, requests>>
            /\ last' = Result("CreateRequest", "Conflict", t, 0, u, Null)
       ELSE /\ Len(requests) < MaxRequests
            /\ requests' = CreateTaskAssignmentRequest(requests, t, u)
            /\ UNCHANGED tasks
            /\ last' = Result("CreateRequest", "ok", t, Len(requests) + 1, u, Null)

(* createTaskAssignmentRequest as its two database calls, findOne and      *)
(* create, with other handlers free to run between them.  The request      *)
(* collection has no unique index on the pair: the existence check of the  *)
(* handler is all there is.                                                 *)
PendingPairIndex == FALSE

InFlight(k, pc, t, r, u) == [calls EXCEPT ![k] = [@ EXCEPT !.pc = pc, !.task = t, !.req = r, !.user = u]]

CreateRequestCheck(k, t, u) ==
    /\ calls[k].pc = "idle"
    /\ t \in 1..Len(tasks)
    /\ UNCHANGED <<tasks, requests>>
    /\ IF ExistingRequest(requests, t, u)
       THEN /\ calls' = InFlight(k, "done", t, 0, u)
            /\ last' = Result("CreateRequest", "Conflict", t, 0, u, Null)
       ELSE /\ calls' = InFlight(k, "create", t, 0, u)
            /\ UNCHANGED last

CreateRequestCreate(k) ==
    LET t == calls[k].task
        u == calls[k].user
    IN  /\ calls[k].pc = "create"
        /\ UNCHANGED tasks
        /\ IF PendingPairIndex /\ ExistingRequest(requests, t, u)
           THEN /\ UNCHANGED requests
                /\ calls' = InFlight(k, "done", t, 0, u)
                /\ last' = Result("CreateRequest", "Internal", t, 0, u, Null)
           ELSE /\ Len(requests) < MaxRequests
                /\ requests' = Append(requests, NewRequest(t, u))
                /\ calls' = InFlight(k, "done", t, Len(requests) + 1, u)
                /\ last' = Result("CreateRequest", "ok", t, Len(requests) + 1, u, Null)

(* ---- createTask ----------------------------------------------------------- *)
(* the count without its priority filter *)
HighPriorityCountAnyPriority(u) ==
    Cardinality({t \in 1..Len(tasks) :
        /\ Includes(tasks[t].assignedTo, u)
        /\ tasks[t].status # "Completed"})

(* Task.countDocuments({assignedTo: userId, priority: "High", status: {$ne: "Completed"}}) *)
HighPriorityCount(u) ==
    Cardinality({t \in 1..Len(tasks) :
        /\ Includes(tasks[t].assignedTo, u)
        /\ tasks[t].priority = "High"
        /\ tasks[t].status # "Completed"})
IsOverloaded(u) == HighPriorityCount(u) >= OverloadThreshold

RECURSIVE CreateRequestsFor(_, _, _)
CreateRequestsFor(reqs, t, us) ==
    IF us = <<>> THEN reqs
    ELSE CreateRequestsFor(CreateTaskAssignmentRequest(reqs, t, Head(us)), t, Tail(us))

CreateTask(assignees, priority, checklist) ==
    LET usersWith == SelectSeq(assignees, IsOverloaded)
        usersWithout == SelectSeq(assignees, LAMBDA u : ~IsOverloaded(u))
        t == Len(tasks) + 1
        task == [assignedTo |-> usersWithout, priority |-> priority,
                 status |-> DefaultStatus, todoChecklist |-> checklist,
                 progress |-> DefaultProgress]
        reqs == CreateRequestsFor(requests, t, usersWith)
    IN  /\ Len(tasks) < MaxTasks
        /\ Len(reqs) <= MaxRequests
        /\ UNCHANGED calls
        /\ tasks' = Append(tasks, task)
        /\ requests' = reqs
        /\ last' = Result("CreateTask", "ok", t, 0, Null, assignees)

(* ---- respondToAssignmentRequest ---------------------------------------- *)
(* the reject recompute without the direct-assignee test of its first rule *)
RejectStatusIgnoringDirect(task, allRequests) ==
    LET requestUsers == MapUsers(allRequests)
        directAssignedApprovedCount ==
            Len(SelectSeq(task.assignedTo, LAMBDA u : u \notin requestUsers))
        approvedRequestsCount == Len(SelectSeq(allRequests, LAMBDA r : r.status = "Approved"))
        rejectedRequestsCount == Len(SelectSeq(allRequests, LAMBDA r : r.status = "Rejected"))
        pendingRequestsCount == Len(SelectSeq(allRequests, LAMBDA r : r.status = "Pending"))
    IN  IF rejectedRequestsCount = Len(allRequests)
        THEN "Rejected"
        ELSE IF pendingRequestsCount > 0 THEN "Pending Approval"
        ELSE IF approvedRequestsCount + directAssignedApprovedCount > 0 THEN "Pending"
        ELSE "Pending Approval"

(* the reject recompute with its first rule comparing the rejected count   *)
(* with totalUsersCount, the length of assignedTo                           *)
RejectStatusAgainstUserCount(task, allRequests) ==
    LET requestUsers == MapUsers(allRequests)
        directAssignedApprovedCount ==
            Len(SelectSeq(task.assignedTo, LAMBDA u : u \notin requestUsers))
        approvedRequestsCount == Len(SelectSeq(allRequests, LAMBDA r : r.status = "Approved"))
        rejectedRequestsCount == Len(SelectSeq(allRequests, LAMBDA r : r.status = "Rejected"))
        pendingRequestsCount == Len(SelectSeq(allRequests, LAMBDA r : r.status = "Pending"))
    IN  IF rejectedRequestsCount = Len(task.assignedTo) /\ directAssignedApprovedCount = 0
        THEN "Rejected"
        ELSE IF pendingRequestsCount > 0 THEN "Pending Approval"
        ELSE IF approvedRequestsCount + directAssignedApprovedCount > 0 THEN "Pending"
        ELSE "Pending Approval"

(* the reject recompute with its third rule counting approved requests only *)
RejectStatusApprovedOnly(task, allRequests) ==
    LET requestUsers == MapUsers(allRequests)
        directAssignedApprovedCount ==
            Len(SelectSeq(task.assignedTo, LAMBDA u : u \notin requestUsers))
        approvedRequestsCount == Len(SelectSeq(allRequests, LAMBDA r : r.status = "Approved"))
        rejectedRequestsCount == Len(SelectSeq(allRequests, LAMBDA r : r.status = "Rejected"))
        pendingRequestsCount == Len(SelectSeq(allRequests, LAMBDA r : r.status = "Pending"))
    IN  IF rejectedRequestsCount = Len(allRequests) /\ directAssignedApprovedCount = 0
        THEN "Rejected"
        ELSE IF pendingRequestsCount > 0 THEN "Pending Approval"
        ELSE IF approvedRequestsCount > 0 THEN "Pending"
        ELSE "Pending Approval"

(* the status the reject branch stores on the task *)
RejectStatus(task, allRequests) ==
    LET requestUsers == MapUsers(allRequests)
        directAssignedApprovedCount ==
            Len(SelectSeq(task.assignedTo, LAMBDA u : u \notin requestUsers))
        approvedRequestsCount == Len(SelectSeq(allRequests, LAMBDA r : r.status = "Approved"))
        rejectedRequestsCount == Len(SelectSeq(allRequests, LAMBDA r : r.status = "Rejected"))
        pendingRequestsCount == Len(SelectSeq(allRequests, LAMBDA r : r.status = "Pending"))
    IN  IF rejectedRequestsCount = Len(allRequests) /\ directAssignedApprovedCount = 0
        THEN "Rejected"
        ELSE IF pendingRequestsCount > 0 THEN "Pending Approval"
        ELSE IF approvedRequestsCount + directAssignedApprovedCount > 0 THEN "Pending"
        ELSE "Pending Approval"

(* a reject that also takes the users of rejected requests off the list *)
RejectTaskDroppingRejected(task, allRequests) ==
    [task EXCEPT
        !.status = RejectStatus(task, allRequests),
        !.assignedTo = SelectSeq(@, LAMBDA u :
            \A i \in 1..Len(allRequests) :
                allRequests[i].assignedToUserId = u => allRequests[i].status # "Rejected")]

(* the task the reject branch saves: only task.status is assigned *)
RejectTask(task, allRequests) ==
    [task EXCEPT !.status = RejectStatus(task, allRequests)]

(* an approve that pushes the candidate without looking for it first *)
ApprovePushAlways(assignedTo, u) == Append(assignedTo, u)

(* if (!task.assignedTo.includes(request.assignedToUserId)) push *)
ApproveAssignedTo(assignedTo, u) ==
    IF Includes(assignedTo, u) THEN assignedTo ELSE Append(assignedTo, u)

(* a responder test that lets every caller through *)
AnyResponder(request, caller) == FALSE

(* request.assignedToUserId.toString() !== req.user._id.toString() *)
NotTheCandidate(request, caller) == request.assignedToUserId # caller

(* an approve that keeps the stored rejection reason *)
ApprovedKeepingReason(request) == [request EXCEPT !.status = "Approved"]

(* request.status = "Approved"; request.rejectionReason = null *)
Approved(request) ==
    [request EXCEPT !.status = "Approved", !.rejectionReason = Null]

(* request.status = "Rejected"; request.rejectionReason = rejectionReason || null *)
Rejected(request, reason) ==
    [request EXCEPT !.status = "Rejected", !.rejectionReason = reason]

RespondToRequest(r, caller, action, reason) ==
    /\ UNCHANGED calls
    /\ IF r \notin 1..Len(requests)
       THEN /\ UNCHANGED <<tasks, requests>>
            /\ last' = Result("RespondToRequest", "NotFound", 0, r, caller, action)
       ELSE LET request == requests[r]
                t == request.taskId
            IN  IF NotTheCandidate(request, caller)
                THEN /\ UNCHANGED <<tasks, requests>>
                     /\ last' = Result("RespondToRequest", "Forbidden", t, r, caller, action)
                ELSE IF action = "approve"
                THEN /\ tasks' = [tasks EXCEPT ![t].assignedTo =
                                     ApproveAssignedTo(@, request.assignedToUserId)]
                     /\ requests' = [requests EXCEPT ![r] = Approved(@)]
                     /\ last' = Result("RespondToRequest", "ok", t, r, caller, action)
                ELSE IF action = "reject"
                THEN /\ requests' = [requests EXCEPT ![r] = Rejected(@, reason)]
                     /\ tasks' = [tasks EXCEPT ![t] =
                           RejectTask(@, SelectSeq(requests', LAMBDA q : q.taskId = t))]
                     /\ last' = Result("RespondToRequest", "ok", t, r, caller, action)
                ELSE /\ UNCHANGED <<tasks, requests>>
                     /\ last' = Result("RespondToRequest", "InvalidInput", t, r, caller, action)

(* ---- respondToAssignmentRequest, one database call at a time ----------- *)
(* Each await of the handler is a step of its own, and other handlers may  *)
(* run between two steps.  A call keeps what it loaded: seen is the result *)
(* of find({taskId}), assigned and status are the assignedTo and status of *)
(* the task document it loaded.  A save sends the changes made to the      *)
(* loaded document: the $push of the candidate, or the paths given a value *)
(* other than the loaded one.                                               *)

(* findById(requestId) and the tests that follow it without an await *)
RespondLoad(k, r, caller, action, reason) ==
    /\ calls[k].pc = "idle"
    /\ UNCHANGED <<tasks, requests>>
    /\ IF r \notin 1..Len(requests)
       THEN /\ calls' = InFlight(k, "done", 0, r, caller)
            /\ last' = Result("RespondToRequest", "NotFound", 0, r, caller, action)
       ELSE LET t == requests[r].taskId
            IN  IF NotTheCandidate(requests[r], caller)
                THEN /\ calls' = InFlight(k, "done", t, r, caller)
                     /\ last' = Result("RespondToRequest", "Forbidden", t, r, caller, action)
                ELSE IF action = "approve"
                THEN /\ calls' = InFlight(k, "approveLoadTask", t, r, caller)
                     /\ UNCHANGED last
                ELSE IF action = "reject"
                THEN /\ calls' = [InFlight(k, "rejectSaveRequest", t, r, caller)
                                     EXCEPT ![k].reason = reason]
                     /\ UNCHANGED last
                ELSE /\ calls' = InFlight(k, "done", t, r, caller)
                     /\ last' = Result("RespondToRequest", "InvalidInput", t, r, caller, action)

(* approve: Task.findById(request.taskId) and the includes test *)
ApproveLoadTask(k) ==
    LET t == calls[k].task
        u == requests[calls[k].req].assignedToUserId
    IN  /\ calls[k].pc = "approveLoadTask"
        /\ UNCHANGED <<tasks, requests, last>>
        /\ calls' = [calls EXCEPT
                        ![k].assigned = tasks[t].assignedTo,
                        ![k].pc = IF Includes(tasks[t].assignedTo, u)
                                  THEN "approveSaveRequest" ELSE "approvePush"]

(* approve: task.assignedTo.push(candidate); task.save() *)
ApprovePush(k) ==
    LET t == calls[k].task
        u == requests[calls[k].req].assignedToUserId
    IN  /\ calls[k].pc = "approvePush"
        /\ tasks' = [tasks EXCEPT ![t].assignedTo = Append(@, u)]
        /\ UNCHANGED <<requests, last>>
        /\ calls' = [calls EXCEPT ![k].pc = "approveSaveRequest"]

(* approve: request.save() and the answer *)
ApproveSaveRequest(k) ==
    LET r == calls[k].req
    IN  /\ calls[k].pc = "approveSaveRequest"
        /\ requests' = [requests EXCEPT ![r] = Approved(@)]
        /\ UNCHANGED tasks
        /\ calls' = [calls EXCEPT ![k].pc = "done"]
        /\ last' = Result("RespondToRequest", "ok", calls[k].task, r, calls[k].user, "approve")

(* reject: request.save() *)
RejectSaveRequest(k) ==
    LET r == calls[k].req
    IN  /\ calls[k].pc = "rejectSaveRequest"
        /\ requests' = [requests EXCEPT ![r] = Rejected(@, calls[k].reason)]
        /\ UNCHANGED <<tasks, last>>
        /\ calls' = [calls EXCEPT ![k].pc = "rejectFind"]

(* reject: TaskAssignmentRequest.find({ taskId }) *)
RejectFind(k) ==
    /\ calls[k].pc = "rejectFind"
    /\ UNCHANGED <<tasks, requests, last>>
    /\ calls' = [calls EXCEPT ![k].seen = RequestsFor(calls[k].task),
                              ![k].pc = "rejectLoadTask"]

(* reject: Task.findById(request.taskId) *)
RejectLoadTask(k) ==
    LET t == calls[k].task
    IN  /\ calls[k].pc = "rejectLoadTask"
        /\ UNCHANGED <<tasks, requests, last>>
        /\ calls' = [calls EXCEPT ![k].assigned = tasks[t].assignedTo,
                                  ![k].status = tasks[t].status,
                                  ![k].pc = "rejectSaveTask"]

(* reject: the recompute on what was loaded, task.save() and the answer *)
RejectSaveTask(k) ==
    LET t == calls[k].task
        loaded == [tasks[t] EXCEPT !.assignedTo = calls[k].assigned,
                                   !.status = calls[k].status]
        saved == RejectTask(loaded, calls[k].seen)
    IN  /\ calls[k].pc = "rejectSaveTask"
        /\ tasks' = [tasks EXCEPT ![t].status =
                        IF saved.status # loaded.status THEN saved.status ELSE @]
        /\ UNCHANGED requests
        /\ calls' = [calls EXCEPT ![k].pc = "done"]
        /\ last' = Result("RespondToRequest", "ok", t, calls[k].req, calls[k].user, "reject")

(* ---- updateTask ---------------------------------------------------------- *)
HasDuplicates(seq) == \E i, j \in 1..Len(seq) : i < j /\ seq[i] = seq[j]

(* req.body.x || task.x *)
OrElse(given, stored) == IF given = Absent THEN stored ELSE given[1]

UpdateTask(t, assignedTo, priority, checklist) ==
    /\ t \in 1..Len(tasks)
    /\ UNCHANGED calls
    /\ IF assignedTo # Absent /\ HasDuplicates(assignedTo[1])
       THEN (* User.find({_id: {$in: ids}}) returns each user once: lengths differ *)
            /\ UNCHANGED <<tasks, requests>>
            /\ last' = Failure("UpdateTask", "NotFound", t, 0)
       ELSE /\ tasks' = [tasks EXCEPT
                           ![t].priority = OrElse(priority, @),
                           ![t].todoChecklist = OrElse(checklist, @),
                           ![t].assignedTo = OrElse(assignedTo, @)]
            /\ UNCHANGED requests
            /\ last' = Result("UpdateTask", "ok", t, 0, Null, Null)

(* ---- updateTaskStatus ---------------------------------------------------- *)
MayUpdate(task, caller) == Includes(task.assignedTo, caller) \/ caller = Admin

(* a completion that leaves the checklist items as they are *)
CompleteNone(checklist) == checklist

(* task.todoChecklist.forEach((item) => (item.completed = true)) *)
CompleteAll(checklist) == [i \in 1..Len(checklist) |-> TRUE]

UpdateTaskStatus(t, caller, status) ==
    /\ t \in 1..Len(tasks)
    /\ UNCHANGED calls
    /\ IF ~MayUpdate(tasks[t], caller)
       THEN /\ UNCHANGED <<tasks, requests>>
            /\ last' = Failure("UpdateTaskStatus", "Forbidden", t, 0)
       ELSE LET newStatus == OrElse(status, tasks[t].status)
                done == newStatus = "Completed"
            IN  /\ tasks' = [tasks EXCEPT
                       ![t].status = newStatus,
                       ![t].todoChecklist =
                           IF done THEN CompleteAll(@) ELSE @,
                       ![t].progress = IF done THEN 100 ELSE @]
                /\ UNCHANGED requests
                /\ last' = Result("UpdateTaskStatus", "ok", t, 0, Null, Null)

(* ---- updateTaskChecklist ------------------------------------------------- *)
(* Math.round(x): the nearest integer, halves upwards *)
Round(num, den) == (2 * num + den) \div (2 * den)

(* (completedCount / totalItems) * 100 is computed in binary64: the         *)
(* quotient is rounded to a double, and so is its product with 100.  For   *)
(* these pairs <<completedCount, totalItems>>, all there are with at most  *)
(* 211 items, 100 * completedCount / totalItems is k + 1/2 exactly and the *)
(* double product is the one just below it (23 / 40 * 100 is               *)
(* 57.49999999999999), so that Math.round gives k and not k + 1.  For      *)
(* every other pair the double rounds as the exact quotient does.          *)
ProductBelowHalf ==
    {<<23, 40>>, <<46, 80>>, <<69, 120>>, <<92, 160>>,
     <<29, 200>>, <<57, 200>>, <<113, 200>>, <<115, 200>>}

(* Math.round((completedCount / totalItems) * 100) *)
Percent(completedCount, totalItems) ==
    IF <<completedCount, totalItems>> \in ProductBelowHalf
    THEN Round(completedCount * 100, totalItems) - 1
    ELSE Round(completedCount * 100, totalItems)

Progress(checklist) ==
    IF Len(checklist) > 0 THEN Percent(CompletedCount(checklist), Len(checklist))
    ELSE 0

ProgressStatus(progress) ==
    IF progress = 100 THEN "Completed"
    ELSE IF progress > 0 THEN "In Progress"
    ELSE "Pending"

(* a guard that never refuses the checklist of a rejected task *)
NeverLocked(task) == FALSE

(* task.status === "Rejected" *)
ChecklistLocked(task) == task.status = "Rejected"

UpdateTaskChecklist(t, caller, checklist) ==
    /\ t \in 1..Len(tasks)
    /\ UNCHANGED calls
    /\ IF ~MayUpdate(tasks[t], caller)
       THEN /\ UNCHANGED <<tasks, requests>>
            /\ last' = Failure("UpdateTaskChecklist", "Forbidden", t, 0)
       ELSE IF ChecklistLocked(tasks[t])
       THEN /\ UNCHANGED <<tasks, requests>>
            /\ last' = Failure("UpdateTaskChecklist", "ForbiddenRejected", t, 0)
       ELSE /\ tasks' = [tasks EXCEPT
                           ![t].todoChecklist = checklist,
                           ![t].progress = Progress(checklist),
                           ![t].status = ProgressStatus(Progress(checklist))]
            /\ UNCHANGED requests
            /\ last' = Result("UpdateTaskChecklist", "ok", t, 0, Null, checklist)

(* ---- getTasks as an operation ------------------------------------------- *)
(* getTasks answers with the resolved status; the status it assigns to the  *)
(* loaded document is never saved, so the collections are unchanged.        *)
GetTasks(t) ==
    /\ t \in 1..Len(tasks)
    /\ UNCHANGED calls
    /\ UNCHANGED <<tasks, requests>>
    /\ last' = Result("GetTasks", "ok", t, 0, Null, Resolve(t))

(* ---- getTaskById ---------------------------------------------------------- *)
(* getTaskById answers with the document as Task.findById loads it: the    *)
(* status in the answer is the stored one.                                  *)
GetTaskById(t) ==
    /\ t \in 1..Len(tasks)
    /\ UNCHANGED calls
    /\ UNCHANGED <<tasks, requests>>
    /\ last' = Result("GetTaskById", "ok", t, 0, Null, tasks[t].status)

(* ---- the system ------------------------------------------------------------ *)
Init ==
    /\ tasks = <<>>
    /\ requests = <<>>
    /\ last = NoOp
    /\ calls = NoCalls

(* the request ids a caller tries: every stored one and the first unused one *)
RequestIds == 1..(Len(requests) + 1)

(* Every write operation, following one task: the handlers read and write  *)
(* one task and that task's requests only (createTask's overload count,    *)
(* the one query across tasks, is followed by SpecWorkflow).               *)
Next ==
    \/ \E a \in AssigneeLists, c \in Checklists :
          tasks = <<>> /\ CreateTask(a, "High", c)
    \/ \E t \in 1..Len(tasks), u \in Users : CreateRequest(t, u)
    \/ \E r \in RequestIds, u \in Users, a \in Actions :
          RespondToRequest(r, u, a, "busy")
    \/ \E t \in 1..Len(tasks), a \in Optional(AssigneeLists) :
          UpdateTask(t, a, Absent, Absent)
    \/ \E t \in 1..Len(tasks), u \in Callers, s \in Optional(TaskStatuses) :
          UpdateTaskStatus(t, u, s)
    \/ \E t \in 1..Len(tasks), u \in Callers, c \in Checklists :
          UpdateTaskChecklist(t, u, c)

Spec == Init /\ [][Next]_vars

(* The assignment of one task: its creation, its requests and their        *)
(* answers by any user, and the replacement of its assignedTo list.        *)
NextAssign ==
    \/ \E a \in AssigneeLists : tasks = <<>> /\ CreateTask(a, "High", <<>>)
    \/ \E t \in 1..Len(tasks), u \in Users : CreateRequest(t, u)
    \/ \E r \in RequestIds, u \in Users, a \in Actions :
          RespondToRequest(r, u, a, "busy")
    \/ \E t \in 1..Len(tasks), a \in AssigneeLists :
          UpdateTask(t, Some(a), Absent, Absent)

SpecAssign == Init /\ [][NextAssign]_vars

(* The workflow of one candidate over several High tasks, enough of them   *)
(* for the candidate to be overloaded when a later one is created.         *)
Candidate == "u1"
CandidateLists == SeqsUpTo({Candidate}, MaxAssignees)

NextWorkflow ==
    \/ \E a \in CandidateLists : CreateTask(a, "High", <<>>)
    \/ \E t \in 1..Len(tasks) : CreateRequest(t, Candidate)
    \/ \E r \in 1..Len(requests), a \in {"approve", "reject"} :
          RespondToRequest(r, Candidate, a, "busy")

SpecWorkflow == Init /\ [][NextWorkflow]_vars

(* The overload routing of createTask: tasks of either priority for any    *)
(* list of the two users, and the admin marking the oldest task Completed, *)
(* which takes it out of the overload count.                                *)
NextOverload ==
    \/ \E a \in AssigneeLists, p \in {"High", "Low"} : CreateTask(a, p, <<>>)
    \/ tasks # <<>> /\ UpdateTaskStatus(1, Admin, Some("Completed"))

SpecOverload == Init /\ [][NextOverload]_vars

(* The checklist of one task: created with any checklist, replaced by     *)
(* updateTask and by updateTaskChecklist, and the status set by hand, by   *)
(* the admin or by any user, assigned or not.                               *)
NextChecklist ==
    \/ \E a \in AssigneeLists, c \in Checklists :
          tasks = <<>> /\ CreateTask(a, "High", c)
    \/ \E t \in 1..Len(tasks), c \in Checklists :
          UpdateTask(t, Absent, Absent, Some(c))
    \/ \E t \in 1..Len(tasks), u \in Callers, s \in Optional(TaskStatuses) :
          UpdateTaskStatus(t, u, s)
    \/ \E t \in 1..Len(tasks), u \in Callers, c \in Checklists :
          UpdateTaskChecklist(t, u, c)

SpecChecklist == Init /\ [][NextChecklist]_vars

(* The progress computation taken alone: the first checklist the admin     *)
(* sends for a task created without one, of any length up to MaxItems and  *)
(* any number of completed items (which items are completed does not enter *)
(* the computation, so the completed ones come first).                      *)
ChecklistOf(completedCount, totalItems) == [i \in 1..totalItems |-> i <= completedCount]

NextProgress ==
    \/ tasks = <<>> /\ CreateTask(<<>>, "High", <<>>)
    \/ /\ tasks # <<>>
       /\ tasks[1].todoChecklist = <<>>
       /\ \E totalItems \in 0..MaxItems :
             \E completedCount \in 0..totalItems :
                 UpdateTaskChecklist(1, Admin, ChecklistOf(completedCount, totalItems))

SpecProgress == Init /\ [][NextProgress]_vars

(* CreateRequest calls in flight together on one task: each does its      *)
(* existence check and its create as separate steps; the candidates answer *)
(* their requests in between.                                               *)
NextCreateRace ==
    \/ \E a \in AssigneeLists : tasks = <<>> /\ CreateTask(a, "High", <<>>)
    \/ \E k \in CallIds, t \in 1..Len(tasks), u \in Users : CreateRequestCheck(k, t, u)
    \/ \E k \in CallIds : CreateRequestCreate(k)
    \/ \E r \in 1..Len(requests), a \in {"approve", "reject"} :
          RespondToRequest(r, requests[r].assignedToUserId, a, "busy")

SpecCreateRace == Init /\ [][NextCreateRace]_vars

(* RespondToRequest calls in flight together on the requests of one task,  *)
(* each a sequence of database calls; the task and its requests are        *)
(* created before, by handlers that run alone.                              *)
NextRespondRace ==
    \/ \E a \in AssigneeLists : tasks = <<>> /\ CreateTask(a, "High", <<>>)
    \/ \E t \in 1..Len(tasks), u \in Users : calls = NoCalls /\ CreateRequest(t, u)
    \/ \E k \in CallIds, r \in RequestIds, u \in Users, a \in Actions :
          RespondLoad(k, r, u, a, "busy")
    \/ \E k \in CallIds : ApproveLoadTask(k)
    \/ \E k \in CallIds : ApprovePush(k)
    \/ \E k \in CallIds : ApproveSaveRequest(k)
    \/ \E k \in CallIds : RejectSaveRequest(k)
    \/ \E k \in CallIds : RejectFind(k)
    \/ \E k \in CallIds : RejectLoadTask(k)
    \/ \E k \in CallIds : RejectSaveTask(k)

SpecRespondRace == Init /\ [][NextRespondRace]_vars

(* The resolver on every stored task and request list within the bounds.   *)
(* Each of these states is one the operations reach: createTask stores any *)
(* assignee list and checklist, updateTask replaces them later without     *)
(* touching status or progress, updateTaskStatus stores any status, and    *)
(* the requests are created and answered one by one.                       *)
RequestRecords ==
    {[taskId |-> 1, assignedToUserId |-> u, status |-> s,
      rejectionReason |-> IF s = "Rejected" THEN "busy" ELSE Null] :
        u \in Users, s \in RequestStatuses}

OnePendingPerUser(reqs) ==
    \A i, j \in 1..Len(reqs) :
        (i < j /\ reqs[i].assignedToUserId = reqs[j].assignedToUserId
               /\ reqs[i].status = "Pending") => reqs[j].status # "Pending"

InitResolve ==
    /\ \E a \in AssigneeLists, c \in Checklists, s \in TaskStatuses :
          tasks = << [assignedTo |-> a, priority |-> "High", status |-> s,
                      todoChecklist |-> c,
                      progress |-> IF s = "Completed" THEN 100 ELSE DefaultProgress] >>
    /\ requests \in {q \in SeqsUpTo(RequestRecords, MaxRequests) : OnePendingPerUser(q)}
    /\ last = NoOp
    /\ calls = NoCalls

NextResolve ==
    \/ \E t \in 1..Len(tasks) : GetTasks(t)
    \/ \E t \in 1..Len(tasks) : GetTaskById(t)

SpecResolve == InitResolve /\ [][NextResolve]_vars

(* ======================================================================== *)
(* Properties                                                               *)
(* ======================================================================== *)
TaskIds == 1..Len(tasks)
IsRespond(l, action) ==
    l.op = "RespondToRequest" /\ l.res = "ok" /\ l.arg = action

(* the users a task is about: its stored assignees and its requests' candidates *)
Candidates(t) ==
    {tasks[t].assignedTo[i] : i \in 1..Len(tasks[t].assignedTo)}
        \cup {requests[i].assignedToUserId : i \in {j \in 1..Len(requests) : requests[j].taskId = t}}
RequestIdsOf(t) == {i \in 1..Len(requests) : requests[i].taskId = t}
(* positions of assignedTo held by a user who has no request for the task *)
DirectAssignees(t) ==
    {i \in 1..Len(tasks[t].assignedTo) :
        \A j \in RequestIdsOf(t) : requests[j].assignedToUserId # tasks[t].assignedTo[i]}

(* C1: every task's stored status equals the status the resolver of        *)
(* GetTasks computes for it, in every reachable state.                      *)
C1_StoredStatusIsResolved ==
    \A t \in TaskIds : tasks[t].status = Resolve(t)

(* C2: the status GetTasks returns is decided by the first matching rule:  *)
(* allRejected or singleUserRejected gives Rejected; else a Pending mapped *)
(* request gives Pending Approval; else an Approved mapped request gives   *)
(* Completed / In Progress / Pending by the checklist; else the stored     *)
(* status.  A checklist [done, not done] with one Approved request gives   *)
(* In Progress.                                                             *)
C2_ResolverPrecedence ==
    last.op = "GetTasks" =>
        LET task == tasks[last.task]
            reqs == RequestsFor(last.task)
            returned == last.arg
            rejected == AllRejected(task, reqs) \/ SingleUserRejected(task, reqs)
            pending == \E u \in Users : MapStatus(reqs, u) = "Pending"
            approved == \E u \in Users : MapStatus(reqs, u) = "Approved"
            done == {i \in 1..Len(task.todoChecklist) : task.todoChecklist[i]}
        IN  /\ rejected => returned = "Rejected"
            /\ ~rejected /\ pending => returned = "Pending Approval"
            /\ ~rejected /\ ~pending /\ approved =>
                  /\ (Len(task.todoChecklist) > 0
                        /\ Cardinality(done) = Len(task.todoChecklist))
                       => returned = "Completed"
                  /\ (done # {} /\ Cardinality(done) < Len(task.todoChecklist))
                       => returned = "In Progress"
                  /\ done = {} => returned = "Pending"
            /\ ~rejected /\ ~pending /\ ~approved => returned = task.status
            /\ (task.todoChecklist = <<TRUE, FALSE>> /\ Len(reqs) = 1
                  /\ reqs[1].status = "Approved") => returned = "In Progress"

(* GetTasks answered In Progress for a task stored as Pending whose        *)
(* checklist is [done, not done] and whose one request is Approved         *)
C2_Witness ==
    /\ last.op = "GetTasks"
    /\ tasks[last.task].todoChecklist = <<TRUE, FALSE>>
    /\ Len(RequestsFor(last.task)) = 1
    /\ RequestsFor(last.task)[1].status = "Approved"
    /\ tasks[last.task].status = "Pending"
    /\ last.arg = "In Progress"

(* C3: a task with a single candidate whose one request is Rejected        *)
(* resolves to Rejected, whatever the checklist, also when the candidate   *)
(* was never added to the stored assignedTo.                                *)
C3_SingleRejectedResolvesRejected ==
    \A t \in TaskIds :
        (/\ Cardinality(Candidates(t)) = 1
         /\ Len(RequestsFor(t)) = 1
         /\ RequestsFor(t)[1].status = "Rejected")
        => Resolve(t) = "Rejected"

(* C4: a task with at least one direct assignee (a member of assignedTo    *)
(* with no request) never resolves to Rejected.                             *)
C4_DirectAssigneeNeverRejected ==
    \A t \in TaskIds : DirectAssignees(t) # {} => Resolve(t) # "Rejected"

(* C5: a task with two or more candidates, at least one request, every     *)
(* request Rejected and no direct assignee resolves to Rejected.           *)
C5_AllRejectedResolvesRejected ==
    \A t \in TaskIds :
        (/\ Cardinality(Candidates(t)) >= 2
         /\ RequestIdsOf(t) # {}
         /\ \A i \in RequestIdsOf(t) : requests[i].status = "Rejected"
         /\ DirectAssignees(t) = {})
        => Resolve(t) = "Rejected"

(* C6: once a request is Approved or Rejected, no later step changes its   *)
(* status.                                                                  *)
C6_TerminalRequestsStay ==
    [][\A r \in 1..Len(requests) :
          requests[r].status \in {"Approved", "Rejected"}
              => requests'[r].status = requests[r].status]_vars

(* C7: after a successful approve the request is Approved with a null      *)
(* rejectionReason, the candidate is in assignedTo, and when no request of *)
(* the task is Pending the stored status is not Pending Approval.          *)
C7_ApproveRecomputesStatus ==
    IsRespond(last, "approve") =>
        /\ requests[last.req].status = "Approved"
        /\ requests[last.req].rejectionReason = Null
        /\ Includes(tasks[last.task].assignedTo, requests[last.req].assignedToUserId)
        /\ (\A i \in RequestIdsOf(last.task) : requests[i].status # "Pending")
              => tasks[last.task].status # "Pending Approval"

(* C8: after a successful reject the stored status is Rejected if every    *)
(* request of the task is Rejected and it has no direct assignee; else     *)
(* Pending Approval if a request is Pending; else Pending if approved      *)
(* requests plus direct assignees are positive; else Pending Approval.     *)
C8_RejectStoresStatus ==
    IsRespond(last, "reject") =>
        LET t == last.task
            ids == RequestIdsOf(t)
            withStatus(s) == {i \in ids : requests[i].status = s}
            direct == DirectAssignees(t)
            stored == tasks[t].status
        IN  /\ (withStatus("Rejected") = ids /\ direct = {}) => stored = "Rejected"
            /\ (~(withStatus("Rejected") = ids /\ direct = {})
                  /\ withStatus("Pending") # {}) => stored = "Pending Approval"
            /\ (~(withStatus("Rejected") = ids /\ direct = {})
                  /\ withStatus("Pending") = {}
                  /\ Cardinality(withStatus("Approved")) + Cardinality(direct) > 0)
                 => stored = "Pending"
            /\ (~(withStatus("Rejected") = ids /\ direct = {})
                  /\ withStatus("Pending") = {}
                  /\ Cardinality(withStatus("Approved")) + Cardinality(direct) = 0)
                 => stored = "Pending Approval"
            /\ (withStatus("Pending") = {} /\ withStatus("Approved") = {} /\ direct = {})
                 => stored = "Rejected"

(* the only request of a task with no direct assignee was just rejected    *)
C8_Witness ==
    /\ IsRespond(last, "reject")
    /\ RequestIdsOf(last.task) = {last.req}
    /\ DirectAssignees(last.task) = {}
    /\ tasks[last.task].status = "Rejected"

(* C9: CreateRequest fails with Conflict and creates nothing when a        *)
(* Pending request for the pair exists; otherwise (the earlier one being   *)
(* approved or rejected) it succeeds and creates a Pending request.        *)
C9_CreateRequestConflict ==
    [][last'.op = "CreateRequest" =>
          LET t == last'.task
              u == last'.user
              pendingExists ==
                  \E i \in 1..Len(requests) :
                      /\ requests[i].taskId = t
                      /\ requests[i].assignedToUserId = u
                      /\ requests[i].status = "Pending"
          IN  IF pendingExists
              THEN last'.res = "Conflict" /\ requests' = requests /\ tasks' = tasks
              ELSE /\ last'.res = "ok"
                   /\ Len(requests') = Len(requests) + 1
                   /\ SubSeq(requests', 1, Len(requests)) = requests
                   /\ requests'[Len(requests')].taskId = t
                   /\ requests'[Len(requests')].assignedToUserId = u
                   /\ requests'[Len(requests')].status = "Pending"]_vars

(* a new request was created for a pair whose earlier request is resolved  *)
C9_Witness ==
    /\ last.op = "CreateRequest"
    /\ last.res = "ok"
    /\ requests[last.req].status = "Pending"
    /\ \E i \in 1..Len(requests) :
          /\ i < last.req
          /\ requests[i].taskId = last.task
          /\ requests[i].assignedToUserId = last.user
          /\ requests[i].status \in {"Approved", "Rejected"}

(* C10: each (task, candidate) pair has at most one Pending request.       *)
C10_AtMostOnePending ==
    \A i, j \in 1..Len(requests) :
        (/\ i < j
         /\ requests[i].taskId = requests[j].taskId
         /\ requests[i].assignedToUserId = requests[j].assignedToUserId
         /\ requests[i].status = "Pending")
        => requests[j].status # "Pending"

(* createTask has just routed an overloaded candidate to a Pending request *)
C10_Witness ==
    /\ last.op = "CreateTask"
    /\ \E i \in 1..Len(requests) :
          requests[i].taskId = last.task /\ requests[i].status = "Pending"

(* the number of times user u occurs in an assignedTo list *)
Occurrences(list, u) == Cardinality({i \in 1..Len(list) : list[i] = u})

(* C11: after a successful approve the candidate occurs exactly once in    *)
(* the task's assignedTo list.                                              *)
C11_CandidateOccursOnce ==
    IsRespond(last, "approve") =>
        Occurrences(tasks[last.task].assignedTo, last.user) = 1

(* C11 (as the code has it): a successful approve adds the candidate once  *)
(* when the list does not hold them and leaves the list as it was when it  *)
(* does, so an approve never adds an occurrence to a list that has one.    *)
C11_ApproveNeverDuplicates ==
    [][IsRespond(last', "approve") =>
          LET t == last'.task
              u == last'.user
              before == Occurrences(tasks[t].assignedTo, u)
              after == Occurrences(tasks'[t].assignedTo, u)
          IN  /\ after = (IF before = 0 THEN 1 ELSE before)
              /\ before > 0 => tasks'[t].assignedTo = tasks[t].assignedTo
              /\ \A v \in Users \ {u} :
                    Occurrences(tasks'[t].assignedTo, v)
                        = Occurrences(tasks[t].assignedTo, v)]_vars

(* a second request of the same pair was approved after the first and the  *)
(* candidate is in the list once                                            *)
C11_Witness ==
    /\ IsRespond(last, "approve")
    /\ \E i \in 1..Len(requests) :
          /\ i # last.req
          /\ requests[i].taskId = last.task
          /\ requests[i].assignedToUserId = last.user
          /\ requests[i].status = "Approved"
    /\ Occurrences(tasks[last.task].assignedTo, last.user) = 1

(* C12: RespondToRequest fails with NotFound when the request id does not  *)
(* exist, with Forbidden when the request exists and the responder is not  *)
(* its candidate (whatever the action), with InvalidInput when the         *)
(* candidate's action is neither approve nor reject; a failed call changes *)
(* no request and no task, and every other call succeeds.                   *)
C12_RespondFailures ==
    [][last'.op = "RespondToRequest" =>
          LET r == last'.req
              responder == last'.user
              action == last'.arg
              nothingModified == requests' = requests /\ tasks' = tasks
          IN  IF r \notin 1..Len(requests)
              THEN last'.res = "NotFound" /\ nothingModified
              ELSE IF requests[r].assignedToUserId # responder
              THEN last'.res = "Forbidden" /\ nothingModified
              ELSE IF action \notin {"approve", "reject"}
              THEN last'.res = "InvalidInput" /\ nothingModified
              ELSE last'.res = "ok"]_vars

(* a user who is not the candidate of a stored request was refused, with   *)
(* an action that is neither approve nor reject                            *)
C12_Witness ==
    /\ last.op = "RespondToRequest"
    /\ last.res = "Forbidden"
    /\ last.req \in 1..Len(requests)
    /\ requests[last.req].assignedToUserId # last.user
    /\ last.arg = "other"

(* C13: CreateTask routes each listed candidate by the overload test on    *)
(* the tasks stored before the call: a candidate held by two or more tasks *)
(* of priority High and status other than Completed is left out of the new *)
(* task's assignedTo and gets exactly one Pending request for it; every    *)
(* other listed candidate is put in assignedTo and gets no request; nobody *)
(* is both in assignedTo and the candidate of a request of the new task.   *)
C13_CreateTaskRouting ==
    [][last'.op = "CreateTask" =>
          LET t == last'.task
              listed == last'.arg
              stored == tasks'[t].assignedTo
              load(u) == Cardinality({k \in 1..Len(tasks) :
                            /\ \E i \in 1..Len(tasks[k].assignedTo) : tasks[k].assignedTo[i] = u
                            /\ tasks[k].priority = "High"
                            /\ tasks[k].status # "Completed"})
              requestsOf(u) == {i \in 1..Len(requests') :
                                   /\ requests'[i].taskId = t
                                   /\ requests'[i].assignedToUserId = u}
          IN  /\ t = Len(tasks) + 1
              /\ \A u \in Users :
                    IF Includes(listed, u) /\ load(u) >= 2
                    THEN /\ ~Includes(stored, u)
                         /\ Cardinality(requestsOf(u)) = 1
                         /\ \A i \in requestsOf(u) : requests'[i].status = "Pending"
                    ELSE /\ Includes(stored, u) <=> Includes(listed, u)
                         /\ requestsOf(u) = {}
              /\ \A u \in Users : ~(Includes(stored, u) /\ requestsOf(u) # {})]_vars

(* one call listed an overloaded candidate, who got a Pending request and  *)
(* no place in assignedTo, and another candidate, who was assigned         *)
C13_Witness ==
    /\ last.op = "CreateTask"
    /\ \E u, v \in Users :
          /\ u # v
          /\ Includes(last.arg, u) /\ Includes(last.arg, v)
          /\ ~Includes(tasks[last.task].assignedTo, u)
          /\ Includes(tasks[last.task].assignedTo, v)
          /\ \E i \in 1..Len(requests) :
                /\ requests[i].taskId = last.task
                /\ requests[i].assignedToUserId = u
                /\ requests[i].status = "Pending"

(* the number of completed items of task t, and the claims' rounding of    *)
(* the percentage num / den (the nearest integer, a half going up)         *)
DoneItems(t) == Cardinality({i \in 1..Len(tasks[t].todoChecklist) : tasks[t].todoChecklist[i]})
Nearest(num, den) == CHOOSE n \in 0..100 : 2 * den * n <= 2 * num + den /\ 2 * num + den < 2 * den * (n + 1)

(* C14: in every state reached by CreateTask, UpdateTask replacing the     *)
(* checklist, UpdateTaskStatus and UpdateTaskChecklist, the stored         *)
(* progress of every task is round(100 * completed / total) of its stored  *)
(* checklist, and 0 when the checklist is empty.                            *)
C14_ProgressMatchesChecklist ==
    \A t \in TaskIds :
        tasks[t].progress =
            IF Len(tasks[t].todoChecklist) = 0 THEN 0
            ELSE Nearest(100 * DoneItems(t), Len(tasks[t].todoChecklist))

(* C15: the stored progress of a task is 100 exactly when its checklist is *)
(* not empty and every item is completed, for every checklist length and   *)
(* every number of completed items.                                         *)
C15_HundredIffAllCompleted ==
    \A t \in TaskIds :
        tasks[t].progress = 100
            <=> (/\ Len(tasks[t].todoChecklist) > 0
                 /\ DoneItems(t) = Len(tasks[t].todoChecklist))

(* C16: UpdateTaskChecklist on a task whose stored status is Rejected      *)
(* fails with Forbidden and leaves the task's checklist, progress and      *)
(* status as they were, so no UpdateTaskChecklist call takes a task out of *)
(* Rejected.                                                                *)
C16_RejectedChecklistLocked ==
    [][(last'.op = "UpdateTaskChecklist" /\ tasks[last'.task].status = "Rejected") =>
          LET t == last'.task
          IN  /\ last'.res \in {"Forbidden", "ForbiddenRejected"}
              /\ tasks'[t].todoChecklist = tasks[t].todoChecklist
              /\ tasks'[t].progress = tasks[t].progress
              /\ tasks'[t].status = "Rejected"
              /\ tasks' = tasks
              /\ requests' = requests]_vars

(* a caller allowed to edit the task was refused because it is Rejected,   *)
(* and the task holds a checklist with an open item                        *)
C16_Witness ==
    /\ last.op = "UpdateTaskChecklist"
    /\ last.res = "ForbiddenRejected"
    /\ tasks[last.task].status = "Rejected"
    /\ Includes(tasks[last.task].todoChecklist, FALSE)

(* C17: a successful UpdateTaskChecklist stores the checklist it was       *)
(* given, sets progress to round(100 * completedCount / total), 0 for an   *)
(* empty checklist, and sets the status from that progress alone: 100      *)
(* gives Completed, a progress strictly between 0 and 100 gives            *)
(* In Progress, 0 gives Pending.                                            *)
C17_ChecklistSetsProgressAndStatus ==
    (last.op = "UpdateTaskChecklist" /\ last.res = "ok") =>
        LET task == tasks[last.task]
            total == Len(last.arg)
            completedCount == Cardinality({i \in 1..total : last.arg[i]})
        IN  /\ task.todoChecklist = last.arg
            /\ task.progress = IF total = 0 THEN 0 ELSE Nearest(100 * completedCount, total)
            /\ task.progress = 100 => task.status = "Completed"
            /\ (0 < task.progress /\ task.progress < 100) => task.status = "In Progress"
            /\ task.progress = 0 => task.status = "Pending"

(* C18: when UpdateTaskStatus leaves a task with status Completed, every   *)
(* item of its checklist is completed and its progress is 100; when it     *)
(* leaves it with any other status, checklist and progress are as before.  *)
C18_CompletedForcesChecklist ==
    [][(last'.op = "UpdateTaskStatus" /\ last'.res = "ok") =>
          LET before == tasks[last'.task]
              after == tasks'[last'.task]
          IN  IF after.status = "Completed"
              THEN /\ Len(after.todoChecklist) = Len(before.todoChecklist)
                   /\ \A i \in 1..Len(after.todoChecklist) : after.todoChecklist[i]
                   /\ after.progress = 100
              ELSE /\ after.todoChecklist = before.todoChecklist
                   /\ after.progress = before.progress]_vars

(* a status update has left a task Completed with a checklist of the       *)
(* longest size, every item completed, and progress 100                    *)
C18_Witness ==
    /\ last.op = "UpdateTaskStatus"
    /\ last.res = "ok"
    /\ tasks[last.task].status = "Completed"
    /\ Len(tasks[last.task].todoChecklist) = MaxChecklist
    /\ \A i \in 1..MaxChecklist : tasks[last.task].todoChecklist[i]
    /\ tasks[last.task].progress = 100

(* C19: GetTaskById returns, for every task, the status GetTasks returns   *)
(* for it (the resolver's), not the raw stored value.                       *)
C19_GetTaskByIdResolves ==
    last.op = "GetTaskById" => last.arg = Resolve(last.task)

(* C20: every request whose rejectionReason is not null has status         *)
(* Rejected: a reason is stored only by a reject, a new request has none,  *)
(* and an approve clears it.                                                *)
C20_ReasonOnlyWhenRejected ==
    \A r \in 1..Len(requests) :
        requests[r].rejectionReason # Null => requests[r].status = "Rejected"

(* a request rejected with a reason was approved afterwards (the task      *)
(* still has the Rejected status the reject stored) and holds no reason    *)
C20_Witness ==
    /\ IsRespond(last, "approve")
    /\ tasks[last.task].status = "Rejected"
    /\ requests[last.req].status = "Approved"
    /\ requests[last.req].rejectionReason = Null

(* C21: a successful reject leaves the task's assignedTo list as it was    *)
(* (the candidate is not added, no member is removed), changes no field of *)
(* the task other than status, no other task, and no request other than    *)
(* the one responded to.                                                    *)
C21_RejectFrame ==
    [][IsRespond(last', "reject") =>
          LET t == last'.task
              r == last'.req
          IN  /\ tasks'[t].assignedTo = tasks[t].assignedTo
              /\ tasks'[t].priority = tasks[t].priority
              /\ tasks'[t].todoChecklist = tasks[t].todoChecklist
              /\ tasks'[t].progress = tasks[t].progress
              /\ Len(tasks') = Len(tasks)
              /\ \A k \in 1..Len(tasks) : k # t => tasks'[k] = tasks[k]
              /\ Len(requests') = Len(requests)
              /\ \A i \in 1..Len(requests) : i # r => requests'[i] = requests[i]
              /\ requests'[r].taskId = requests[r].taskId
              /\ requests'[r].assignedToUserId = requests[r].assignedToUserId]_vars

(* a member of assignedTo has rejected a request, another request of the   *)
(* task is Pending, and the member is still in the list                    *)
C21_Witness ==
    /\ IsRespond(last, "reject")
    /\ Includes(tasks[last.task].assignedTo, last.user)
    /\ requests[last.req].status = "Rejected"
    /\ \E i \in 1..Len(requests) :
          i # last.req /\ requests[i].taskId = last.task /\ requests[i].status = "Pending"

(* C22: CreateRequest, whether it succeeds or fails, leaves every task as  *)
(* it was (assignedTo, status, checklist, progress); a user becomes a      *)
(* member of a task's assignedTo only by CreateTask or UpdateTask (direct  *)
(* assignment) or by their own approve, so a candidate with requests but   *)
(* never approved nor directly assigned is not a member.                   *)
C22_CreateRequestFrame ==
    [][/\ last'.op = "CreateRequest" => tasks' = tasks
       /\ \A t \in 1..Len(tasks') : \A u \in Users :
             (/\ Includes(tasks'[t].assignedTo, u)
              /\ ~(t \in 1..Len(tasks) /\ Includes(tasks[t].assignedTo, u)))
             => \/ last'.op \in {"CreateTask", "UpdateTask"}
                \/ IsRespond(last', "approve") /\ last'.user = u /\ last'.task = t]_vars

(* a second request was created for a candidate whose first one is         *)
(* Rejected, and the candidate is not in assignedTo                        *)
C22_Witness ==
    /\ last.op = "CreateRequest"
    /\ last.res = "ok"
    /\ ~Includes(tasks[last.task].assignedTo, last.user)
    /\ \E i \in 1..Len(requests) :
          /\ i # last.req
          /\ requests[i].taskId = last.task
          /\ requests[i].assignedToUserId = last.user
          /\ requests[i].status = "Rejected"

(* C23: when the existence checks and the creates of CreateRequest calls   *)
(* for the same (task, candidate) pair interleave as separate steps, every *)
(* reachable state still has at most one Pending request per pair.         *)
C23_OnePendingWhenInterleaved ==
    \A t \in TaskIds : \A u \in Users :
        Cardinality({i \in 1..Len(requests) :
                        /\ requests[i].taskId = t
                        /\ requests[i].assignedToUserId = u
                        /\ requests[i].status = "Pending"}) <= 1

(* the calls that have answered, and the task the calls in flight are on   *)
Finished == \A k \in CallIds : calls[k].pc \in {"idle", "done"}
(* every request of task t is Rejected and t has no direct assignee: the   *)
(* state in which a reject that runs alone stores Rejected                 *)
AllRejectedNoDirect(t) ==
    /\ RequestIdsOf(t) # {}
    /\ \A i \in RequestIdsOf(t) : requests[i].status = "Rejected"
    /\ DirectAssignees(t) = {}

(* C24: RespondToRequest calls on the requests of one task whose database  *)
(* calls interleave can leave a task state that no serial order leaves:    *)
(* when the calls have all answered, the last answer is a reject, every    *)
(* request of the task is Rejected and there is no direct assignee (where  *)
(* any serial order ends with stored status Rejected), the stored status   *)
(* is other than Rejected only if some reject computed it from a list of   *)
(* requests read before another call's write, and so not the final list.   *)
C24_NonSerialOnlyByStaleRead ==
    (/\ Finished
     /\ IsRespond(last, "reject")
     /\ AllRejectedNoDirect(last.task)
     /\ tasks[last.task].status # "Rejected")
    => \E k \in CallIds :
          /\ calls[k].pc = "done"
          /\ calls[k].task = last.task
          /\ calls[k].seen # <<>>
          /\ calls[k].seen # RequestsFor(last.task)

(* two rejects of the two Pending requests of a task with no direct        *)
(* assignee have both answered, both requests are Rejected, and the stored *)
(* status is Pending Approval                                               *)
C24_Witness ==
    /\ Finished
    /\ IsRespond(last, "reject")
    /\ Len(requests) = 2
    /\ \E j, k \in CallIds :
          /\ j # k
          /\ calls[j].pc = "done" /\ calls[k].pc = "done"
          /\ calls[j].req = 1 /\ calls[k].req = 2
          /\ calls[j].seen # <<>> /\ calls[k].seen # <<>>
    /\ AllRejectedNoDirect(last.task)
    /\ tasks[last.task].status = "Pending Approval"

(* C25: right after a successful reject on a task whose checklist has no   *)
(* completed item, the status the reject stored equals the status the      *)
(* resolver of GetTasks computes for the same task and requests.           *)
C25_RejectAgreesWithResolver ==
    (/\ IsRespond(last, "reject")
     /\ \A i \in 1..Len(tasks[last.task].todoChecklist) : ~tasks[last.task].todoChecklist[i])
    => tasks[last.task].status = Resolve(last.task)

(* C26: the final fallback of the reject recompute never decides: after    *)
(* every successful reject one of the first three rules matches (every     *)
(* request of the task Rejected with no direct assignee, or a request      *)
(* Pending, or approved requests plus direct assignees positive), so the   *)
(* stored status is Pending Approval only when a request is Pending.       *)
C26_FallbackUnreachable ==
    IsRespond(last, "reject") =>
        LET t == last.task
            ids == RequestIdsOf(t)
            rejected == {i \in ids : requests[i].status = "Rejected"}
            pending == {i \in ids : requests[i].status = "Pending"}
            approved == {i \in ids : requests[i].status = "Approved"}
            direct == DirectAssignees(t)
        IN  /\ \/ rejected = ids /\ direct = {}
               \/ pending # {}
               \/ Cardinality(approved) + Cardinality(direct) > 0
            /\ tasks[t].status = "Pending Approval" => pending # {}

(* a reject on a task with a direct assignee and no Pending or Approved    *)
(* request: the first two rules do not match and the third decides         *)
C26_Witness ==
    /\ IsRespond(last, "reject")
    /\ DirectAssignees(last.task) # {}
    /\ \A i \in RequestIdsOf(last.task) : requests[i].status = "Rejected"
    /\ tasks[last.task].status = "Pending"
====
